---- MODULE Spec2Model ----
(***************************************************************************)
(* Model of src/server.js: the upstream client adapter (callMegaLLM), the  *)
(* two-stage generation pipeline (generatePresentationStructure,           *)
(* enhancePresentation, POST /api/generate) and the health query           *)
(* (GET /api/health).                                                      *)
(*                                                                         *)
(* Text is a sequence of one-character strings.  A JSON text that carries  *)
(* no whitespace and no backtick of its own is one payload symbol (PDoc,   *)
(* PNull, ...) whose parsed value JSONValue gives.                         *)
(***************************************************************************)
EXTENDS Integers, Sequences, FiniteSets, TLC

VARIABLES
    apiKeySet,     \* MEGALLM_API_KEY is a non-empty string
    apiUrl,        \* MEGALLM_API_URL
    apiStatus,     \* { configured, lastCheck, healthy }
    now,           \* the clock new Date() reads
    uuidCount,     \* number of identifiers uuidv4() has handed out
    requests,      \* one record per inbound generate request
    idsReturned,   \* the id of every document answered so far, in order
    healthReply,   \* <<body>> of the GET /api/health answer this step sent, or <<>>
    lastCall,      \* how the adapter call that completed last ended
    twin,          \* the state of a second server given the same requests and answers
    input,         \* argument of the function under study (pure-function specifications)
    output         \* its result

vars == <<apiKeySet, apiUrl, apiStatus, now, uuidCount, requests, idsReturned, healthReply,
          lastCall, twin, input, output>>

-----------------------------------------------------------------------------
(* Bounds *)

\* number of inbound generate requests of one run
MaxRequests == 2
\* last value of the clock
MaxClock == 2
\* number of pieces an input text of the fence-stripping study is built from
MaxPieces == 4
\* number of slides of a document in the merge study
MaxSlides == 3
\* number of enhancedSlides entries in the merge study
MaxEntries == 3
\* number of chat messages of a call in the wire-format study
MaxMessages == 3

-----------------------------------------------------------------------------
(* Strings *)

\* the backtick character (written "^": SANY's lexer rejects U+0060 inside a string)
Backtick == "^"

Fence == <<Backtick, Backtick, Backtick>>
FenceJson == Fence \o <<"j", "s", "o", "n">>

IsSpace(c) == c \in {" ", "\n"}

RECURSIVE TrimStart(_)
TrimStart(s) ==
    IF s # <<>> /\ IsSpace(Head(s)) THEN TrimStart(Tail(s)) ELSE s

RECURSIVE TrimEnd(_)
TrimEnd(s) ==
    IF s # <<>> /\ IsSpace(s[Len(s)]) THEN TrimEnd(SubSeq(s, 1, Len(s) - 1)) ELSE s

\* String.prototype.trim
Trim(s) == TrimEnd(TrimStart(s))

\* String.prototype.startsWith / endsWith
StartsWith(s, p) == Len(s) >= Len(p) /\ SubSeq(s, 1, Len(p)) = p
EndsWith(s, p) == Len(s) >= Len(p) /\ SubSeq(s, Len(s) - Len(p) + 1, Len(s)) = p

\* s.slice(n) and s.slice(0, -n)
SliceFrom(s, n) == SubSeq(s, n + 1, Len(s))
SliceDropLast(s, n) == SubSeq(s, 1, Len(s) - n)

\* the two markers tested in the other order: the json marker is never matched
StripLeadingFenceMut(s) ==
    IF StartsWith(s, Fence) THEN SliceFrom(s, 3)
    ELSE IF StartsWith(s, FenceJson) THEN SliceFrom(s, 7)
    ELSE s

StripLeadingFence(s) ==
    IF StartsWith(s, FenceJson) THEN SliceFrom(s, 7)
    ELSE IF StartsWith(s, Fence) THEN SliceFrom(s, 3)
    ELSE s

StripTrailingFence(s) ==
    IF EndsWith(s, Fence) THEN SliceDropLast(s, 3) ELSE s

\* the text handed to JSON.parse: response.trim(), one leading marker removed,
\* one trailing marker removed, trim()
StripFence(response) ==
    Trim(StripTrailingFence(StripLeadingFence(Trim(response))))

-----------------------------------------------------------------------------
(* JSON values *)

JNull == [type |-> "null"]
JNumber(n) == [type |-> "number", val |-> n]
JArray(items) == [type |-> "array", items |-> items]
\* props is a function from the property names the object has to their values
JObject(props) == [type |-> "object", props |-> props]

IsObject(v) == v.type = "object"
HasProp(v, name) == IsObject(v) /\ name \in DOMAIN v.props

\* obj[name] = value on an object: the property is added or overwritten
SetProp(v, name, value) ==
    JObject([n \in DOMAIN v.props \cup {name} |-> IF n = name THEN value ELSE v.props[n]])

\* new Date().toISOString() at clock value t, and the n-th result of uuidv4()
ISOString(t) == [iso |-> t]
UUID(n) == [uuid |-> n]

SlideA == [type |-> "title", title |-> "Intro", notes |-> "n0"]
SlideB == [type |-> "content", title |-> "Data", notes |-> "n1"]
SlideC == [type |-> "conclusion", title |-> "End", notes |-> "n2"]

Entry(i, notes, transition) ==
    JObject([slideIndex |-> i, enhancedNotes |-> notes, transition |-> transition])

\* the JSON texts of the model: payload symbol -> the value JSON.parse gives
PDoc == "{doc}"
PDocMeta == "{doc+meta}"
PNoSlides == "{title}"
PNull == "null"
PNumber == "5"
PArray == "[]"
PEnh == "{enh}"
PEnhNullEntry == "{enh+null}"
PEnhNoList == "{takeaways}"
PEnhNoTakeaways == "{enh-takeaways}"

Payloads ==
    {PDoc, PDocMeta, PNoSlides, PNull, PNumber, PArray,
     PEnh, PEnhNullEntry, PEnhNoList, PEnhNoTakeaways}

JSONValue(p) ==
    CASE p = PDoc -> JObject([title |-> "T", slides |-> <<SlideA, SlideB>>])
      [] p = PDocMeta ->
            JObject([title |-> "T", slides |-> <<SlideA>>, id |-> UUID(0),
                     createdAt |-> ISOString(0), topic |-> <<"m">>])
      [] p = PNoSlides -> JObject([title |-> "T"])
      [] p = PNull -> JNull
      [] p = PNumber -> JNumber(5)
      [] p = PArray -> JArray(<<>>)
      [] p = PEnh ->
            JObject([enhancedSlides |->
                        <<Entry(0, "e0", "t0"), Entry(7, "e7", "t7"),
                          Entry(-1, "e-1", "t-1"), Entry(1, "e1", "t1")>>,
                     keyTakeaways |-> <<"k1", "k2">>])
      [] p = PEnhNullEntry ->
            JObject([enhancedSlides |-> <<Entry(0, "e0", "t0"), JNull, Entry(1, "e1", "t1")>>,
                     keyTakeaways |-> <<"k1">>])
      [] p = PEnhNoList -> JObject([keyTakeaways |-> <<"k1">>])
      [] p = PEnhNoTakeaways -> JObject([enhancedSlides |-> <<Entry(1, "e1", "t1")>>])

\* JSON.parse of an already trimmed text: a value, or a SyntaxError
JSONParse(s) ==
    IF Len(s) = 1 /\ s[1] \in Payloads
    THEN [ok |-> TRUE, value |-> JSONValue(s[1])]
    ELSE [ok |-> FALSE]

-----------------------------------------------------------------------------
(* Upstream client adapter: callMegaLLM *)

AnthropicUrl == "https://api.anthropic.com/v1/messages"
OtherUrl == "https://ai.megallm.io/v1/chat/completions"
LookalikeUrl == "https://api.anthropic.com.example.org/v1/messages"
BadUrl == "not a url"

\* new URL(MEGALLM_API_URL) throws a TypeError on a string that is no URL
UrlParses(url) == url # BadUrl
UrlHostname(url) ==
    CASE url = AnthropicUrl -> "api.anthropic.com"
      [] url = OtherUrl -> "ai.megallm.io"
      [] url = LookalikeUrl -> "api.anthropic.com.example.org"

MEGALLM_MODEL == "claude-opus-4-5-20251101"
\* temperature of the OpenAI-compatible body, in tenths
TemperatureTenths == 7
TimeoutMs == 120000
StructureMaxTokens == 8000
EnhanceMaxTokens == 4000
\* number of leading slides sent to the enhancement call
EnhancePrefix == 5

\* MEGALLM_API_URL.includes('api.anthropic.com')
IsAnthropicFormatMut(url) == url \in {AnthropicUrl, LookalikeUrl}
IsAnthropicFormat(url) == UrlHostname(url) = "api.anthropic.com"

RECURSIVE FindSystem(_)
\* messages.find(m => m.role === 'system'): <<m>> for the first one, <<>> for none
FindSystem(messages) ==
    IF messages = <<>> THEN <<>>
    ELSE IF Head(messages).role = "system" THEN <<Head(messages)>>
    ELSE FindSystem(Tail(messages))

RECURSIVE NonSystem(_)
\* messages.filter(m => m.role !== 'system').map(m => ({ role, content }))
NonSystem(messages) ==
    IF messages = <<>> THEN <<>>
    ELSE IF Head(messages).role # "system"
         THEN <<[role |-> Head(messages).role, content |-> Head(messages).content]>>
                  \o NonSystem(Tail(messages))
         ELSE NonSystem(Tail(messages))

\* systemMsg?.content || ''
SystemField(messages) ==
    IF FindSystem(messages) = <<>> THEN "" ELSE FindSystem(messages)[1].content

\* the arguments of axios.post: url, requestBody, { headers, timeout }
BuildRequest(url, key, messages, maxTokens) ==
    IF IsAnthropicFormat(url)
    THEN [url |-> url,
          headers |-> ("x-api-key" :> <<key>>)
                        @@ ("Content-Type" :> <<"application/json">>)
                        @@ ("anthropic-version" :> <<"2023-06-01">>),
          body |-> [model |-> MEGALLM_MODEL,
                    max_tokens |-> maxTokens,
                    system |-> SystemField(messages),
                    messages |-> NonSystem(messages)],
          timeout |-> TimeoutMs]
    ELSE [url |-> url,
          headers |-> ("Authorization" :> <<"Bearer ", key>>)
                        @@ ("Content-Type" :> <<"application/json">>),
          body |-> [model |-> MEGALLM_MODEL,
                    messages |-> messages,
                    max_tokens |-> maxTokens,
                    temperature |-> TemperatureTenths],
          timeout |-> TimeoutMs]

\* An error caught in callMegaLLM: status = error.response?.status (0: no response),
\* code = error.code ("": none), dataMessage = error.response?.data?.error?.message
\* ("": none)
CaughtError(status, code, dataMessage) ==
    [status |-> status, code |-> code, dataMessage |-> dataMessage]

\* a TypeError thrown inside the try block (bad URL, body without a completion)
TypeErrorInTry == CaughtError(0, "", "")

MsgNoKey == <<"API key not configured. Set MEGALLM_API_KEY environment variable.">>
MsgAuth == <<"Invalid API key. Please check your MEGALLM_API_KEY environment variable.">>
MsgRateLimit == <<"API rate limit exceeded. Please wait a moment and try again.">>
MsgUnavailable == <<"AI service is temporarily unavailable. Please try again later.">>
MsgTimeout ==
    <<"Request timed out. The AI service is taking too long to respond. Please try again.">>
MsgConnect == <<"Cannot connect to AI service. Please check your internet connection.">>
MsgGeneric == <<"Failed to generate presentation. Please try again.">>
MsgService(m) == <<"AI Service Error: ", m>>

\* the message of the Error the catch block of callMegaLLM throws
ErrorMessage(error) ==
    IF error.status = 401 THEN MsgAuth
    ELSE IF error.status = 429 THEN MsgRateLimit
    ELSE IF error.status \in {500, 502, 503} THEN MsgUnavailable
    ELSE IF error.code = "ECONNABORTED" THEN MsgTimeout
    ELSE IF error.code \in {"ENOTFOUND", "ECONNREFUSED"} THEN MsgConnect
    ELSE IF error.dataMessage # "" THEN MsgService(error.dataMessage)
    ELSE MsgGeneric

-----------------------------------------------------------------------------
(* What the upstream does with one request *)

\* the request fails: an HTTP error status or a network error
Failed(error) == [kind |-> "error", error |-> error, shape |-> "", text |-> <<>>]
\* a 2xx answer; shape "text": the first choice/content element holds text,
\* "notext": it exists and holds no text, "nocompletion": there is none
Answered(shape, text) ==
    [kind |-> "ok", error |-> TypeErrorInTry, shape |-> shape, text |-> text]

\* callMegaLLM from the return of axios.post on: the value returned or the Error thrown,
\* and the health flag it leaves
CallResult(outcome) ==
    IF outcome.kind = "error"
    THEN [threw |-> TRUE, message |-> ErrorMessage(outcome.error),
          hasText |-> FALSE, text |-> <<>>, healthy |-> FALSE]
    ELSE IF outcome.shape = "nocompletion"
    THEN [threw |-> TRUE, message |-> ErrorMessage(TypeErrorInTry),
          hasText |-> FALSE, text |-> <<>>, healthy |-> FALSE]
    ELSE IF outcome.shape = "notext"
    THEN [threw |-> FALSE, message |-> <<>>,
          hasText |-> FALSE, text |-> <<>>, healthy |-> TRUE]
    ELSE [threw |-> FALSE, message |-> <<>>,
          hasText |-> TRUE, text |-> outcome.text, healthy |-> TRUE]

-----------------------------------------------------------------------------
(* Generation pipeline *)

MsgTopic == <<"Please provide a topic">>
MsgTrimUndefined == <<"Cannot read properties of undefined (reading 'trim')">>
MsgSyntax == <<"Unexpected token in JSON">>
MsgSetOnNull == <<"Cannot set properties of null (setting 'id')">>

StructureMessages(topic) ==
    <<[role |-> "system", content |-> "structure-system-prompt"],
      [role |-> "user", content |-> <<"structure-user-prompt", topic>>]>>

\* presentation.slides.slice(0, 5)
FirstSlides(slides) ==
    SubSeq(slides, 1, IF Len(slides) < EnhancePrefix THEN Len(slides) ELSE EnhancePrefix)

EnhanceMessages(presentation) ==
    <<[role |-> "system", content |-> "enhance-system-prompt"],
      [role |-> "user",
       content |-> <<"enhance-user-prompt", FirstSlides(presentation.props.slides)>>]>>

\* presentation.slides.slice(0, 5) evaluates without a TypeError
HasSlides(presentation) == HasProp(presentation, "slides")

\* slides.at(e.slideIndex): a negative index counts from the end
ApplyEntryMut(slides, e) ==
    LET at == IF e.props.slideIndex < 0 THEN Len(slides) + e.props.slideIndex
              ELSE e.props.slideIndex
    IN IF "slideIndex" \in DOMAIN e.props /\ at >= 0 /\ at < Len(slides)
       THEN [slides EXCEPT ![at + 1] =
               [n \in DOMAIN @ \cup {"enhancedNotes", "transition"} |->
                   IF n = "enhancedNotes" THEN e.props.enhancedNotes
                   ELSE IF n = "transition" THEN e.props.transition
                   ELSE @[n]]]
       ELSE slides

\* the body of the forEach callback on an object entry e
ApplyEntry(slides, e) ==
    IF "slideIndex" \in DOMAIN e.props
       /\ e.props.slideIndex >= 0 /\ e.props.slideIndex < Len(slides)
    THEN [slides EXCEPT ![e.props.slideIndex + 1] =
            [n \in DOMAIN @ \cup {"enhancedNotes", "transition"} |->
                IF n = "enhancedNotes" THEN e.props.enhancedNotes
                ELSE IF n = "transition" THEN e.props.transition
                ELSE @[n]]]
    ELSE slides

RECURSIVE ApplyEnhancements(_, _)
\* enhancements.enhancedSlides.forEach(...) on the slides, which it changes in place:
\* the slides when it ends, and whether it ended by a TypeError (reading
\* slideIndex of null)
ApplyEnhancements(slides, entries) ==
    IF entries = <<>> THEN [slides |-> slides, threw |-> FALSE]
    ELSE IF ~IsObject(Head(entries)) THEN [slides |-> slides, threw |-> TRUE]
    ELSE ApplyEnhancements(ApplyEntry(slides, Head(entries)), Tail(entries))

\* the catch block of enhancePresentation: the presentation as it is by then
Caught(presentation) == [presentation |-> presentation, caught |-> TRUE]

\* enhancePresentation from the return of its callMegaLLM on, for a presentation
\* that has slides: the presentation it returns, and whether its catch block ran
Enhanced(presentation, result) ==
    IF result.threw \/ ~result.hasText THEN Caught(presentation)
    ELSE LET parsed == JSONParse(StripFence(result.text)) IN
         IF ~parsed.ok THEN Caught(presentation)
         ELSE IF ~HasProp(parsed.value, "enhancedSlides") THEN Caught(presentation)
         ELSE LET applied == ApplyEnhancements(presentation.props.slides,
                                               parsed.value.props.enhancedSlides)
                  merged == SetProp(presentation, "slides", applied.slides)
              IN IF applied.threw THEN Caught(merged)
                 ELSE [presentation |->
                          IF HasProp(parsed.value, "keyTakeaways")
                          THEN SetProp(merged, "keyTakeaways",
                                       parsed.value.props.keyTakeaways)
                          ELSE merged,
                       caught |-> FALSE]

Success(doc) == [status |-> 200, body |-> doc]
\* res.json({ error }) without res.status(...)
FailureMut(status, message) == [status |-> 200, body |-> JObject([error |-> message])]
\* res.status(status).json({ error: message })
Failure(status, message) == [status |-> status, body |-> JObject([error |-> message])]
NoResponse == [status |-> 0, body |-> JNull]

\* lines 285-294: the metadata is set on the presentation and it is sent; on null the
\* first assignment throws; on a number or an array the assignments leave nothing
\* that res.json serializes
Finalize(presentation, topic, uuid, t) ==
    IF IsObject(presentation)
    THEN Success(SetProp(SetProp(SetProp(presentation, "id", UUID(uuid)),
                                 "createdAt", ISOString(t)), "topic", topic))
    ELSE IF presentation.type = "null" THEN Failure(500, MsgSetOnNull)
    ELSE Success(presentation)

-----------------------------------------------------------------------------
(* The server: state, requests, upstream answers *)

Requests == 1..MaxRequests

\* req.body: a function from the property names it has to their values
NoTopicBody == [n \in {} |-> <<>>]
TopicBody(topic) == [topic |-> topic]

Bodies ==
    {NoTopicBody, TopicBody(<<>>), TopicBody(<<" ", "\n">>),
     TopicBody(<<"A", "I">>), TopicBody(<<" ", "A", "I", " ">>)}

\* !topic || topic.length === 0
TopicRejectedMut(body) ==
    \/ "topic" \notin DOMAIN body
    \/ body.topic = <<>>

\* !topic || topic.trim().length === 0
TopicRejected(body) ==
    \/ "topic" \notin DOMAIN body
    \/ body.topic = <<>>
    \/ Len(Trim(body.topic)) = 0

UpstreamFailures ==
    {Failed(CaughtError(401, "ERR_BAD_REQUEST", "invalid x-api-key")),
     Failed(CaughtError(504, "ERR_BAD_RESPONSE", "")),
     Failed(CaughtError(0, "ECONNABORTED", "")),
     Answered("nocompletion", <<>>),
     Answered("notext", <<>>)}

FencedJson(p) == FenceJson \o <<"\n", p, "\n">> \o Fence
Fenced(p) == Fence \o <<"\n", p, "\n">> \o Fence

StructureOutcomes ==
    UpstreamFailures \cup
    {Answered("text", t) :
        t \in {<<PDoc>>, FencedJson(PDocMeta), <<" ", PNoSlides>>, <<PNull>>,
               <<PNumber>>, <<PArray>>, <<"j", "s">>, Fence \o FencedJson(PDoc)}}

EnhanceOutcomes ==
    UpstreamFailures \cup
    {Answered("text", t) :
        t \in {<<PEnh>>, Fenced(PEnhNullEntry), <<PEnhNoList>>, <<PEnhNoTakeaways>>,
               <<PNull>>, <<"j", "s">>}}

\* structureOk: generatePresentationStructure returned; structure: what it returned;
\* enhanceCaught: the catch block of enhancePresentation ran; sent: the upstream
\* requests handed to axios.post so far; pending: how many of them have not returned
IdleRequest ==
    [pc |-> "idle", body |-> NoTopicBody, structureOk |-> FALSE, structure |-> JNull,
     presentation |-> JNull, enhanceCaught |-> FALSE, sent |-> <<>>, pending |-> 0,
     response |-> NoResponse]

\* a request whose answer was sent: its objects are garbage
ClosedRequest == [IdleRequest EXCEPT !.pc = "closed"]

\* the requests once the answers of the last step are on their way
LiveOf(reqs) == [q \in Requests |-> IF reqs[q].pc = "done" THEN ClosedRequest ELSE reqs[q]]
Live == LiveOf(requests)

\* res.json({ status: 'ok', model: MEGALLM_MODEL })
HealthStatusMut ==
    [status |-> "ok", model |-> MEGALLM_MODEL, apiConfigured |-> apiStatus.configured,
     lastCheck |-> apiStatus.lastCheck, healthy |-> apiStatus.healthy, message |-> <<>>]

\* the body of the answer of GET /api/health
HealthStatus ==
    IF apiStatus.configured
    THEN [status |-> "ok", model |-> MEGALLM_MODEL, apiConfigured |-> apiStatus.configured,
          lastCheck |-> apiStatus.lastCheck, healthy |-> apiStatus.healthy,
          message |-> <<>>]
    ELSE [status |-> "unconfigured", model |-> MEGALLM_MODEL,
          apiConfigured |-> apiStatus.configured,
          lastCheck |-> apiStatus.lastCheck, healthy |-> apiStatus.healthy,
          message |-> MsgNoKey]

NullTime == [iso |-> -1]

Init ==
    /\ apiKeySet \in BOOLEAN
    /\ apiUrl \in {AnthropicUrl, OtherUrl, BadUrl}
    /\ apiStatus = [configured |-> apiKeySet, lastCheck |-> NullTime, healthy |-> FALSE]
    /\ now = 1
    /\ uuidCount = 0
    /\ requests = [r \in Requests |-> IdleRequest]
    /\ idsReturned = <<>>
    /\ healthReply = <<>>
    /\ lastCall = "none"
    /\ twin = <<>>
    /\ input = <<>>
    /\ output = <<>>

ApiKey == IF apiKeySet THEN "sk-key" ELSE ""

\* the catch block of callMegaLLM and the success path both stamp the flag
StampedOn(status, healthy) ==
    [status EXCEPT !.healthy = healthy, !.lastCheck = ISOString(now)]
Stamped(healthy) == StampedOn(apiStatus, healthy)

\* what the handlers read and write: the health flag, the identifiers handed out, the
\* requests, the ids answered, and how the last adapter call ended
State ==
    [apiStatus |-> apiStatus, uuidCount |-> uuidCount, requests |-> requests,
     idsReturned |-> idsReturned, lastCall |-> lastCall]

\* the upstream call skipped whenever the last check failed
CredentialMissingMut(st) ==
    ~apiKeySet \/ (st.apiStatus.lastCheck # NullTime /\ ~st.apiStatus.healthy)

\* line 60, !MEGALLM_API_KEY, evaluated in server state st
CredentialMissing(st) == ~apiKeySet

\* the upstream requests generatePresentationStructure hands to axios.post
StructureCall(topic) ==
    <<BuildRequest(apiUrl, ApiKey, StructureMessages(topic), StructureMaxTokens)>>

\* the enhancement request handed to axios.post a second time
EnhanceCallMut(presentation) ==
    <<BuildRequest(apiUrl, ApiKey, EnhanceMessages(presentation), EnhanceMaxTokens),
      BuildRequest(apiUrl, ApiKey, EnhanceMessages(presentation), EnhanceMaxTokens)>>

\* the upstream requests enhancePresentation hands to axios.post
EnhanceCall(presentation) ==
    <<BuildRequest(apiUrl, ApiKey, EnhanceMessages(presentation), EnhanceMaxTokens)>>

\* how an adapter call ended: with text, with a value that is no text, or by throwing
CallEnding(result) ==
    IF result.threw THEN "failed" ELSE IF result.hasText THEN "text" ELSE "notext"

\* POST /api/generate up to its first await that waits for the upstream, in state st
Generated(st, r, body) ==
    LET live == LiveOf(st.requests)
    IN IF TopicRejected(body)
       THEN [st EXCEPT !.requests = [live EXCEPT ![r].pc = "done", ![r].body = body,
                                           ![r].response = Failure(400, MsgTopic)]]
       ELSE IF CredentialMissing(st)
       THEN [st EXCEPT !.requests = [live EXCEPT ![r].pc = "done", ![r].body = body,
                                           ![r].response = Failure(500, MsgNoKey)]]
       ELSE IF ~UrlParses(apiUrl)
       THEN [st EXCEPT !.requests = [live EXCEPT ![r].pc = "done", ![r].body = body,
                                  ![r].response = Failure(500, ErrorMessage(TypeErrorInTry))],
                       !.apiStatus = StampedOn(st.apiStatus, FALSE),
                       !.lastCall = "failed"]
       ELSE [st EXCEPT !.requests = [live EXCEPT ![r].pc = "structure", ![r].body = body,
                                  ![r].sent = StructureCall(body.topic),
                                  ![r].pending = Len(StructureCall(body.topic))]]

\* <<id>> of the document an answer carries, <<>> when it carries none
ReturnedId(response) ==
    IF response.status = 200 /\ HasProp(response.body, "id")
    THEN <<response.body.props.id>> ELSE <<>>

\* the rest of the handler once the presentation is enhanced or enhancement is given up
RespondOn(st, r, enhanced) ==
    [LiveOf(st.requests) EXCEPT
        ![r].pc = "done", ![r].presentation = enhanced.presentation,
        ![r].enhanceCaught = enhanced.caught,
        ![r].pending = @ - 1,
        ![r].response = Finalize(enhanced.presentation, st.requests[r].body.topic,
                                 st.uuidCount + 1, now)]
Respond(r, enhanced) == RespondOn(State, r, enhanced)

\* the answer of a request whose structure stage threw
StructureFailed(st, r, message) ==
    [LiveOf(st.requests) EXCEPT ![r].pc = "done", ![r].pending = @ - 1,
                                ![r].response = Failure(500, message)]

\* the structure call returns: generatePresentationStructure ends, and
\* enhancePresentation runs up to its upstream call, in state st
StructureReturned(st, r, outcome) ==
    LET result == CallResult(outcome)
        parsed == JSONParse(StripFence(result.text))
        stamped == [st EXCEPT !.apiStatus = StampedOn(st.apiStatus, result.healthy),
                              !.lastCall = CallEnding(result)]
    IN IF result.threw
       THEN [stamped EXCEPT !.requests = StructureFailed(st, r, result.message)]
       ELSE IF ~result.hasText
       THEN [stamped EXCEPT !.requests = StructureFailed(st, r, MsgTrimUndefined)]
       ELSE IF ~parsed.ok
       THEN [stamped EXCEPT !.requests = StructureFailed(st, r, MsgSyntax)]
       ELSE IF HasSlides(parsed.value)
       THEN [stamped EXCEPT !.requests =
                [LiveOf(st.requests) EXCEPT
                    ![r].pc = "enhance",
                    ![r].structureOk = TRUE,
                    ![r].structure = parsed.value,
                    ![r].presentation = parsed.value,
                    ![r].sent = @ \o EnhanceCall(parsed.value),
                    ![r].pending = @ - 1 + Len(EnhanceCall(parsed.value))]]
       ELSE LET answered == [RespondOn(st, r, Caught(parsed.value)) EXCEPT
                                ![r].structureOk = TRUE,
                                ![r].structure = parsed.value]
            IN [stamped EXCEPT !.requests = answered,
                               !.uuidCount = @ + 1,
                               !.idsReturned = @ \o ReturnedId(answered[r].response)]

\* the enhancement call returns: enhancePresentation ends and the handler answers,
\* in state st
EnhanceReturned(st, r, outcome) ==
    LET result == CallResult(outcome)
        answered == RespondOn(st, r, Enhanced(st.requests[r].presentation, result))
    IN [st EXCEPT !.apiStatus = StampedOn(st.apiStatus, result.healthy),
                  !.lastCall = CallEnding(result),
                  !.requests = answered,
                  !.uuidCount = @ + 1,
                  !.idsReturned = @ \o ReturnedId(answered[r].response)]

\* the server moves to state st
Becomes(st) ==
    /\ apiStatus' = st.apiStatus
    /\ uuidCount' = st.uuidCount
    /\ requests' = st.requests
    /\ idsReturned' = st.idsReturned
    /\ lastCall' = st.lastCall

GenerateEffect(r, body) ==
    /\ requests[r].pc = "idle"
    \* requests are numbered in the order they arrive
    /\ \A q \in Requests : q < r => requests[q].pc # "idle"
    /\ healthReply' = <<>>
    /\ Becomes(Generated(State, r, body))
    /\ UNCHANGED <<apiKeySet, apiUrl, now, input, output>>

StructureReturnsEffect(r, outcome) ==
    /\ requests[r].pc = "structure"
    /\ healthReply' = <<>>
    /\ Becomes(StructureReturned(State, r, outcome))
    /\ UNCHANGED <<apiKeySet, apiUrl, now, input, output>>

EnhanceReturnsEffect(r, outcome) ==
    /\ requests[r].pc = "enhance"
    /\ healthReply' = <<>>
    /\ Becomes(EnhanceReturned(State, r, outcome))
    /\ UNCHANGED <<apiKeySet, apiUrl, now, input, output>>

HealthEffect ==
    /\ healthReply' = <<HealthStatus>>
    /\ requests' = Live
    /\ UNCHANGED <<apiKeySet, apiUrl, apiStatus, now, uuidCount, idsReturned, lastCall,
                   input, output>>

TickEffect ==
    /\ now < MaxClock
    /\ now' = now + 1
    /\ healthReply' = <<>>
    /\ requests' = Live
    /\ UNCHANGED <<apiKeySet, apiUrl, apiStatus, uuidCount, idsReturned, lastCall,
                   input, output>>

\* POST /api/generate up to its first await that waits for the upstream
Generate(r, body) == GenerateEffect(r, body) /\ UNCHANGED twin

\* the structure call returns
StructureReturns(r, outcome) == StructureReturnsEffect(r, outcome) /\ UNCHANGED twin

\* the enhancement call returns
EnhanceReturns(r, outcome) == EnhanceReturnsEffect(r, outcome) /\ UNCHANGED twin

\* GET /api/health
Health == HealthEffect /\ UNCHANGED twin

\* time passes
Tick == TickEffect /\ UNCHANGED twin

Next ==
    \/ \E r \in Requests, body \in Bodies : Generate(r, body)
    \/ \E r \in Requests, outcome \in StructureOutcomes : StructureReturns(r, outcome)
    \/ \E r \in Requests, outcome \in EnhanceOutcomes : EnhanceReturns(r, outcome)
    \/ Health
    \/ Tick

Spec == Init /\ [][Next]_vars

(* Two servers side by side: the same configuration, the same requests in the same
   order and the same upstream answers, and a different health flag to start with *)

\* the values of healthy and lastCheck the second server starts from
TwinFlags ==
    {[healthy |-> TRUE, lastCheck |-> NullTime],
     [healthy |-> TRUE, lastCheck |-> ISOString(0)],
     [healthy |-> FALSE, lastCheck |-> ISOString(0)]}

InitTwin ==
    /\ apiKeySet \in BOOLEAN
    /\ apiUrl \in {AnthropicUrl, OtherUrl, BadUrl}
    /\ apiStatus = [configured |-> apiKeySet, lastCheck |-> NullTime, healthy |-> FALSE]
    /\ now = 1
    /\ uuidCount = 0
    /\ requests = [r \in Requests |-> IdleRequest]
    /\ idsReturned = <<>>
    /\ healthReply = <<>>
    /\ lastCall = "none"
    /\ \E flag \in TwinFlags :
          twin = [State EXCEPT !.apiStatus.healthy = flag.healthy,
                               !.apiStatus.lastCheck = flag.lastCheck]
    /\ input = <<>>
    /\ output = <<>>

\* the second server with the answers of its last step on their way
TwinLive == [twin EXCEPT !.requests = LiveOf(@)]

TwinGenerate(r, body) ==
    /\ GenerateEffect(r, body)
    /\ twin' = IF twin.requests[r].pc = "idle" THEN Generated(twin, r, body) ELSE TwinLive

\* the upstream answer reaches the second server's call, if it made that call
TwinStructureReturns(r, outcome) ==
    /\ StructureReturnsEffect(r, outcome)
    /\ twin' = IF twin.requests[r].pc = "structure"
               THEN StructureReturned(twin, r, outcome) ELSE TwinLive

TwinEnhanceReturns(r, outcome) ==
    /\ EnhanceReturnsEffect(r, outcome)
    /\ twin' = IF twin.requests[r].pc = "enhance"
               THEN EnhanceReturned(twin, r, outcome) ELSE TwinLive

TwinHealth == HealthEffect /\ twin' = TwinLive

TwinTick == TickEffect /\ twin' = TwinLive

NextTwin ==
    \/ \E r \in Requests, body \in Bodies : TwinGenerate(r, body)
    \/ \E r \in Requests, outcome \in StructureOutcomes : TwinStructureReturns(r, outcome)
    \/ \E r \in Requests, outcome \in EnhanceOutcomes : TwinEnhanceReturns(r, outcome)
    \/ TwinHealth
    \/ TwinTick

SpecTwin == InitTwin /\ [][NextTwin]_vars

-----------------------------------------------------------------------------
(* Properties of the pipeline, checked under Spec *)

Done(r) == requests[r].pc = "done"

\* the request carried a topic that is a string with a character that is no whitespace
HasTopic(body) ==
    "topic" \in DOMAIN body /\ \E i \in 1..Len(body.topic) : ~IsSpace(body.topic[i])

MetaProps == {"id", "createdAt", "topic"}

\* doc is base with nothing but id, createdAt and topic set on it
OnlyMetaAdded(doc, base) ==
    /\ IsObject(doc) /\ IsObject(base)
    /\ DOMAIN doc.props = DOMAIN base.props \cup MetaProps
    /\ \A n \in DOMAIN base.props \ MetaProps : doc.props[n] = base.props[n]

\* C1 (as claimed): a request whose structure stage returned a document with slides and
\* whose enhancement stage failed (its catch block ran) is answered with success, and the
\* answered document is the stage-1 document with only id, createdAt and topic added:
\* no slide carries enhancedNotes or transition, and keyTakeaways is not set.
C1_EnhancementFailureLeavesStage1Document ==
    \A r \in Requests :
        (Done(r) /\ requests[r].structureOk /\ HasSlides(requests[r].structure)
            /\ requests[r].enhanceCaught)
        => /\ requests[r].response.status = 200
           /\ OnlyMetaAdded(requests[r].response.body, requests[r].structure)

\* C2 (as claimed): a request with a non-empty topic is answered with a failure only if
\* the structure stage failed; once the stage-1 text has parsed as JSON (any value),
\* the answer is a success.
C2_FailureOnlyIfStructureFailed ==
    \A r \in Requests :
        (Done(r) /\ HasTopic(requests[r].body) /\ requests[r].structureOk)
        => requests[r].response.status = 200

\* C3: when the structure stage fails (no key, upstream error, text that does not parse)
\* the answer has a non-success status and a body holding nothing but one error message,
\* and no enhancement call was sent for the request: at most the structure call was.
C3_StructureFailureIsFatal ==
    \A r \in Requests :
        (Done(r) /\ HasTopic(requests[r].body) /\ ~requests[r].structureOk)
        => /\ requests[r].response.status >= 400
           /\ IsObject(requests[r].response.body)
           /\ DOMAIN requests[r].response.body.props = {"error"}
           /\ requests[r].response.body.props.error # <<>>
           /\ requests[r].presentation = JNull
           /\ Len(requests[r].sent) <= 1
           /\ \A i \in 1..Len(requests[r].sent) :
                 requests[r].sent[i].body.max_tokens = StructureMaxTokens

\* a structure stage that failed on text that is no JSON, after its call was sent
C3_Witness ==
    \E r \in Requests :
        /\ Done(r) /\ HasTopic(requests[r].body) /\ ~requests[r].structureOk
        /\ requests[r].response.body.props.error = MsgSyntax
        /\ Len(requests[r].sent) = 1

\* C4: a request whose topic is missing, empty or only whitespace is answered with
\* status 400 and 'Please provide a topic' in the step that receives it; that step sends
\* no upstream request and leaves the health flag as it was.
C4_BlankTopicRejected ==
    [][\A r \in Requests :
          (requests[r].pc = "idle" /\ requests'[r].pc # "idle"
              /\ ~HasTopic(requests'[r].body))
          => /\ requests'[r].pc = "done"
             /\ requests'[r].response.status = 400
             /\ requests'[r].response.body = JObject([error |-> MsgTopic])
             /\ requests'[r].sent = <<>>
             /\ \A q \in Requests : Len(requests'[q].sent) <= Len(requests[q].sent)
             /\ apiStatus' = apiStatus]_vars

\* a whitespace-only topic rejected after an earlier call has stamped the health flag
C4_Witness ==
    \E r \in Requests :
        /\ Done(r) /\ requests[r].body = TopicBody(<<" ", "\n">>)
        /\ requests[r].response.status = 400
        /\ apiStatus.lastCheck # NullTime

\* the answer GET /api/health gives when no key is configured
UnconfiguredAnswer(reply) ==
    /\ reply.status = "unconfigured"
    /\ reply.apiConfigured = FALSE
    /\ reply.healthy = FALSE
    /\ reply.lastCheck = NullTime

\* C5: with no API key, every request with a topic fails with the missing-credential
\* message and sends no upstream request; the health query answers in every state, with
\* apiConfigured false and status 'unconfigured'; healthy stays false and lastCheck null.
C5_NoKeyNeverCalls ==
    ~apiKeySet =>
        /\ \A r \in Requests :
              /\ requests[r].pc \in {"idle", "done", "closed"}
              /\ requests[r].sent = <<>>
              /\ (Done(r) /\ HasTopic(requests[r].body))
                    => requests[r].response = [status |-> 500,
                                               body |-> JObject([error |-> MsgNoKey])]
        /\ ENABLED Health
        /\ UnconfiguredAnswer(HealthStatus)
        /\ (healthReply # <<>> => UnconfiguredAnswer(healthReply[1]))
        /\ apiStatus.healthy = FALSE
        /\ apiStatus.lastCheck = NullTime

\* no key, a second request with a topic has just failed, after the first one did
C5_Witness ==
    /\ ~apiKeySet
    /\ \E r \in Requests :
          /\ r > 1 /\ Done(r) /\ HasTopic(requests[r].body)
          /\ requests[r].response.body.props.error = MsgNoKey

RECURSIVE NoDuplicates(_)
NoDuplicates(seq) ==
    \/ seq = <<>>
    \/ /\ \A i \in 2..Len(seq) : seq[i] # seq[1]
       /\ NoDuplicates(Tail(seq))

\* C10 (as claimed): every document answered by a successful request carries an id, a
\* createdAt and a topic set at finalize over whatever the model's JSON held: topic is
\* the topic string the caller sent, and no two answered ids are equal.
C10_EveryDocumentCarriesMetadata ==
    /\ NoDuplicates(idsReturned)
    /\ \A r \in Requests :
          (Done(r) /\ requests[r].response.status = 200)
          => /\ HasProp(requests[r].response.body, "id")
             /\ HasProp(requests[r].response.body, "createdAt")
             /\ HasProp(requests[r].response.body, "topic")
             /\ requests[r].response.body.props.topic = requests[r].body.topic
             /\ requests[r].response.body.props.id # UUID(0)
             /\ requests[r].response.body.props.createdAt = ISOString(now)

-----------------------------------------------------------------------------
(* The functions of the adapter and the pipeline, each applied to inputs drawn from a
   bounded set: input is the argument, output is <<result>> once it is applied *)

\* C11: within one generate request at most two upstream requests are sent, the
\* structure request first and at most one enhancement request; the enhancement
\* request is sent only once the structure call has returned text that parsed; at
\* most one call of the request is outstanding at any time; and a request answered
\* after a failed call has sent nothing more than the calls that were made.
C11_UpstreamCallsOrderedNeverRetried ==
    \A r \in Requests :
        LET q == requests[r]
        IN /\ Len(q.sent) <= 2
           /\ q.pending \in {0, 1}
           /\ (q.pending = 1) <=> (q.pc \in {"structure", "enhance"})
           /\ q.pc = "structure" => q.sent = StructureCall(q.body.topic)
           /\ q.pc = "enhance" => Len(q.sent) = 2
           /\ Len(q.sent) >= 1 => SubSeq(q.sent, 1, 1) = StructureCall(q.body.topic)
           /\ Len(q.sent) = 2 =>
                /\ q.structureOk
                /\ HasSlides(q.structure)
                /\ q.sent[2].body.max_tokens = EnhanceMaxTokens
                /\ SubSeq(q.sent, 2, 2) = EnhanceCall(q.structure)
           /\ (q.pc = "done" /\ ~q.structureOk) => Len(q.sent) <= 1

\* the enhancement call of a request failed and the request was answered with the
\* stage-1 document, two upstream requests sent in all
C11_Witness ==
    \E r \in Requests :
        /\ Done(r)
        /\ requests[r].enhanceCaught
        /\ Len(requests[r].sent) = 2
        /\ requests[r].pending = 0
        /\ requests[r].response.status = 200


\* an answer with id and createdAt taken off its document
WithoutIdAndTime(response) ==
    IF IsObject(response.body)
    THEN [response EXCEPT !.body =
            JObject([n \in DOMAIN response.body.props \ {"id", "createdAt"} |->
                        response.body.props[n]])]
    ELSE response

\* what a server in state st has done for each request: where the request stands, the
\* upstream requests it sent, and its answer apart from id and createdAt
Outcomes(st) ==
    [r \in Requests |->
        [pc |-> st.requests[r].pc,
         sent |-> st.requests[r].sent,
         pending |-> st.requests[r].pending,
         response |-> WithoutIdAndTime(st.requests[r].response)]]

\* C12: two servers that get the same requests and the same upstream answers and start
\* from different values of healthy and lastCheck send the same upstream requests and
\* answer every generate request alike: the same status, the same error message, the
\* same document apart from id and createdAt.
C12_HealthFlagNeverInfluencesControlFlow == Outcomes(twin) = Outcomes(State)

\* a generate request has passed the adapter's checks and sent its structure request
\* on both servers while their health flags differ
C12_Witness ==
    \E r \in Requests :
        /\ requests[r].pc = "structure"
        /\ twin.requests[r].pc = "structure"
        /\ Len(requests[r].sent) = 1
        /\ twin.apiStatus.healthy # apiStatus.healthy
        /\ twin.apiStatus.lastCheck # apiStatus.lastCheck


\* the flag tells how the adapter call that completed last ended
HealthFlagLastWriteWins ==
    (apiKeySet /\ lastCall # "none") =>
        /\ apiStatus.healthy <=> (lastCall = "text")
        /\ lastCall = "failed" => ~apiStatus.healthy

\* the document request r is answered with holds its own topic and, slides and
\* keyTakeaways aside, what its own structure call returned
OwnDocument(r) ==
    LET doc == requests[r].response.body
        own == requests[r].structure
    IN (Done(r) /\ requests[r].response.status = 200 /\ IsObject(doc)) =>
          /\ requests[r].structureOk
          /\ IsObject(own)
          /\ doc.props.topic = requests[r].body.topic
          /\ \A n \in DOMAIN doc.props \ (MetaProps \cup {"slides", "keyTakeaways"}) :
                n \in DOMAIN own.props /\ doc.props[n] = own.props[n]

\* C13 (as claimed): with a key configured and generate requests interleaved in any
\* way, healthy is true exactly when the adapter call that completed last, of any
\* request and either stage, returned a text payload, and false when it failed; and
\* every document answered is built from the request's own upstream responses.
C13_HealthFlagIsLastWriteWins ==
    /\ HealthFlagLastWriteWins
    /\ \A r \in Requests : OwnDocument(r)


\* the server's state while a function is studied
Parked ==
    /\ apiKeySet = TRUE
    /\ apiUrl = AnthropicUrl
    /\ apiStatus = [configured |-> TRUE, lastCheck |-> NullTime, healthy |-> FALSE]
    /\ now = 1
    /\ uuidCount = 0
    /\ requests = [r \in Requests |-> IdleRequest]
    /\ idsReturned = <<>>
    /\ healthReply = <<>>
    /\ lastCall = "none"
    /\ twin = <<>>

serverVars ==
    <<apiKeySet, apiUrl, apiStatus, now, uuidCount, requests, idsReturned, healthReply,
      lastCall, twin>>

(* fence stripping *)

Pieces ==
    {Fence, FenceJson, <<" ">>, <<"\n">>, <<PDoc>>, <<Backtick>>, <<"j", "s", "o", "n">>}

RECURSIVE TextsOf(_)
\* the texts made of at most n pieces
TextsOf(n) ==
    IF n = 0 THEN {<<>>}
    ELSE LET shorter == TextsOf(n - 1)
         IN shorter \cup {t \o p : t \in shorter, p \in Pieces}

InitFence == Parked /\ input \in TextsOf(MaxPieces) /\ output = <<>>

ApplyStripFence ==
    /\ output = <<>>
    /\ output' = <<StripFence(input)>>
    /\ UNCHANGED <<serverVars, input>>

NextFence == ApplyStripFence

SpecFence == InitFence /\ [][NextFence]_vars

(* merge *)

\* slide i of a document; the first one already carries enhancedNotes
StudySlide(i) ==
    IF i = 1
    THEN [type |-> "title", title |-> i, notes |-> i, enhancedNotes |-> "old"]
    ELSE [type |-> "content", title |-> i, notes |-> i]

StudySlides(n) == [i \in 1..n |-> StudySlide(i)]

StudyEntries ==
    {Entry(i, nt[1], nt[2]) : i \in (-1)..MaxSlides, nt \in {<<"a", "x">>, <<"b", "y">>}}

RECURSIVE SeqsUpTo(_, _)
\* the sequences of at most n elements of S
SeqsUpTo(S, n) ==
    IF n = 0 THEN {<<>>}
    ELSE LET shorter == SeqsUpTo(S, n - 1)
         IN shorter \cup {Append(q, x) : q \in shorter, x \in S}

InitMerge ==
    /\ Parked
    /\ input \in {[slides |-> StudySlides(n), entries |-> es] :
                     n \in 0..MaxSlides, es \in SeqsUpTo(StudyEntries, MaxEntries)}
    /\ output = <<>>

ApplyMerge ==
    /\ output = <<>>
    /\ output' = <<ApplyEnhancements(input.slides, input.entries)>>
    /\ UNCHANGED <<serverVars, input>>

NextMerge == ApplyMerge

SpecMerge == InitMerge /\ [][NextMerge]_vars

(* error messages *)

\* axios rejects every status outside 2xx, with code ERR_BAD_REQUEST or ERR_BAD_RESPONSE
HttpErrors ==
    {CaughtError(status, IF status < 500 THEN "ERR_BAD_REQUEST" ELSE "ERR_BAD_RESPONSE", m) :
        status \in 400..599, m \in {"", "overloaded"}}

NetworkErrors ==
    {CaughtError(0, code, "") :
        code \in {"ECONNABORTED", "ENOTFOUND", "ECONNREFUSED", "ECONNRESET", ""}}

InitError == Parked /\ input \in HttpErrors \cup NetworkErrors /\ output = <<>>

ThrowMessage ==
    /\ output = <<>>
    /\ output' = <<ErrorMessage(input)>>
    /\ UNCHANGED <<serverVars, input>>

NextError == ThrowMessage

SpecError == InitError /\ [][NextError]_vars

(* wire format *)

StudyMessages ==
    {[role |-> role, content |-> content] :
        role \in {"system", "user", "assistant"}, content \in {"", "c1", "c2"}}

InitWire ==
    /\ Parked
    /\ input \in {[url |-> url, messages |-> ms, maxTokens |-> t] :
                     url \in {AnthropicUrl, OtherUrl, LookalikeUrl},
                     ms \in SeqsUpTo(StudyMessages, MaxMessages),
                     t \in {EnhanceMaxTokens, StructureMaxTokens}}
    /\ output = <<>>

ApplyBuildRequest ==
    /\ output = <<>>
    /\ output' = <<BuildRequest(input.url, ApiKey, input.messages, input.maxTokens)>>
    /\ UNCHANGED <<serverVars, input>>

NextWire == ApplyBuildRequest

SpecWire == InitWire /\ [][NextWire]_vars

-----------------------------------------------------------------------------
(* Properties of the functions *)

Applied == output # <<>>

MaxOf(S) == CHOOSE x \in S : \A y \in S : y <= x
MinOf(S) == CHOOSE x \in S : \A y \in S : x <= y

EnhancementProps == {"enhancedNotes", "transition"}

\* C6: merging the enhancedSlides entries raises no error and keeps the slide count; a
\* slide no entry addresses is unchanged; a slide some entry addresses carries the
\* enhancedNotes and transition of the last entry addressing it and is otherwise
\* unchanged; entries whose slideIndex is negative or not below the slide count change
\* nothing, and the entries after them are still applied.
C6_MergeTouchesOnlyAddressedSlides ==
    Applied =>
        LET merged == output[1]
            slides == input.slides
            entries == input.entries
        IN /\ ~merged.threw
           /\ Len(merged.slides) = Len(slides)
           /\ \A i \in 1..Len(slides) :
                 LET hits == {k \in 1..Len(entries) : entries[k].props.slideIndex = i - 1}
                 IN IF hits = {}
                    THEN merged.slides[i] = slides[i]
                    ELSE LET e == entries[MaxOf(hits)].props
                         IN /\ DOMAIN merged.slides[i] = DOMAIN slides[i] \cup EnhancementProps
                            /\ merged.slides[i].enhancedNotes = e.enhancedNotes
                            /\ merged.slides[i].transition = e.transition
                            /\ \A n \in DOMAIN slides[i] \ EnhancementProps :
                                  merged.slides[i][n] = slides[i][n]

\* a negative entry, then one past the last slide, then one that is applied
C6_Witness ==
    /\ Applied
    /\ Len(input.slides) = 2
    /\ Len(input.entries) = 3
    /\ input.entries[1].props.slideIndex = -1
    /\ input.entries[2].props.slideIndex = 2
    /\ input.entries[3].props.slideIndex = 1
    /\ output[1].slides[2].enhancedNotes = input.entries[3].props.enhancedNotes
    /\ output[1].slides[1] = input.slides[1]

\* the message the claim gives the failure class of an error
ClaimedMessages(error) ==
    IF error.status = 401 THEN {MsgAuth}
    ELSE IF error.status = 429 THEN {MsgRateLimit}
    ELSE IF error.status \in 500..599 THEN {MsgUnavailable}
    ELSE IF error.code = "ECONNABORTED" THEN {MsgTimeout}
    ELSE IF error.code \in {"ENOTFOUND", "ECONNREFUSED"} THEN {MsgConnect}
    ELSE {MsgGeneric, MsgService(error.dataMessage)}

\* C7 (as claimed): 401 gives the authentication message, 429 the rate-limit message,
\* every status from 500 to 599 the unavailable message, a timeout the timeout message,
\* an unreachable connection the connection message, anything else a generic upstream
\* error; and the messages of the classes are pairwise different.
C7_EachFailureClassHasItsMessage ==
    /\ Cardinality({MsgAuth, MsgRateLimit, MsgUnavailable, MsgTimeout, MsgConnect,
                    MsgGeneric, MsgService("overloaded")}) = 7
    /\ Applied => output[1] \in ClaimedMessages(input)

IsNotSystem(m) == m.role # "system"

\* C8: the request built for the host api.anthropic.com has, whatever the messages and
\* the token budget, the x-api-key and anthropic-version headers, a system field holding
\* the content of the first system message or the empty string, and the non-system
\* messages in their order; the request built for any other host has the Bearer
\* authorization header, all the messages unchanged and temperature 0.7.
C8_WireFormatByHostname ==
    Applied =>
        LET req == output[1]
            ms == input.messages
            sys == {i \in 1..Len(ms) : ms[i].role = "system"}
        IN IF UrlHostname(input.url) = "api.anthropic.com"
           THEN /\ DOMAIN req.headers = {"x-api-key", "Content-Type", "anthropic-version"}
                /\ req.headers["x-api-key"] = <<ApiKey>>
                /\ req.headers["anthropic-version"] = <<"2023-06-01">>
                /\ DOMAIN req.body = {"model", "max_tokens", "system", "messages"}
                /\ req.body.system = IF sys = {} THEN "" ELSE ms[MinOf(sys)].content
                /\ req.body.messages = SelectSeq(ms, IsNotSystem)
                /\ req.body.max_tokens = input.maxTokens
           ELSE /\ DOMAIN req.headers = {"Authorization", "Content-Type"}
                /\ req.headers["Authorization"] = <<"Bearer ", ApiKey>>
                /\ DOMAIN req.body = {"model", "messages", "max_tokens", "temperature"}
                /\ req.body.messages = ms
                /\ req.body.max_tokens = input.maxTokens
                /\ req.body.temperature = TemperatureTenths

\* format A built from a user message followed by two different system messages
C8_Witness ==
    /\ Applied
    /\ input.url = AnthropicUrl
    /\ Len(input.messages) = 3
    /\ input.messages[1].role = "user"
    /\ input.messages[2] = [role |-> "system", content |-> "c1"]
    /\ input.messages[3] = [role |-> "system", content |-> "c2"]
    /\ output[1].body.system = "c1"
    /\ Len(output[1].body.messages) = 1

HasFence(t) == StartsWith(t, Fence) \/ EndsWith(t, Fence)

\* a text with no whitespace around it that, as every JSON text, neither begins with a
\* backtick or the letter j nor ends with a backtick
IsPayload(p) ==
    /\ p = Trim(p)
    /\ p # <<>> => p[1] \notin {Backtick, "j"} /\ p[Len(p)] # Backtick

Blanks == {<<>>, <<"\n">>, <<" ", "\n">>}

\* a payload wrapped in a json fence or a bare fence is stripped to the payload
WrappedYieldsPayload(p) ==
    \A a \in Blanks, b \in Blanks :
        /\ StripFence(a \o FenceJson \o b \o p \o a \o Fence \o b) = p
        /\ StripFence(b \o Fence \o a \o p \o b \o Fence \o a) = p

\* out is text with the whitespace before and after it removed, and nothing else
OnlyWhitespaceRemoved(text, out) ==
    /\ out # <<>> => ~IsSpace(out[1]) /\ ~IsSpace(out[Len(out)])
    /\ \E i \in 0..Len(text) :
          /\ i + Len(out) <= Len(text)
          /\ SubSeq(text, i + 1, i + Len(out)) = out
          /\ \A k \in 1..Len(text) : (k <= i \/ k > i + Len(out)) => IsSpace(text[k])

\* C9 (as claimed): stripping a stripped text changes nothing, for every text; a wrapped
\* payload is stripped to the text the unwrapped payload is stripped to; a text without
\* a fence loses its surrounding whitespace and nothing else.
C9_FenceStrippingIdempotent ==
    Applied =>
        /\ StripFence(output[1]) = output[1]
        /\ IsPayload(input) => WrappedYieldsPayload(input) /\ output[1] = input
        /\ ~HasFence(Trim(input)) => OnlyWhitespaceRemoved(input, output[1])

\* C9 (amended): fence stripping removes one layer. Stripping the stripped text changes
\* nothing exactly when the stripped text neither begins nor ends with a fence marker;
\* a wrapped payload is stripped to the text the unwrapped payload is stripped to; a
\* text without a fence loses its surrounding whitespace and nothing else.
C9_FenceStrippingRemovesOneLayer ==
    Applied =>
        /\ (StripFence(output[1]) = output[1]) <=> ~HasFence(output[1])
        /\ IsPayload(input) => WrappedYieldsPayload(input) /\ output[1] = input
        /\ ~HasFence(Trim(input)) => OnlyWhitespaceRemoved(input, output[1])

\* a json-fenced document stripped to the document, which a second pass leaves alone
C9_Witness ==
    /\ Applied
    /\ input = FenceJson \o <<"\n", PDoc>> \o Fence
    /\ output[1] = <<PDoc>>
    /\ StripFence(output[1]) = output[1]

====
